---- MODULE Spec2Model ----
(***************************************************************************)
(* Model of the fishing mini-game controller of MFABD2                     *)
(* (agent/fishing_agent.py): the Zone Extractor, the Motion Model, the     *)
(* Zone Decay Model, the Click Scheduler (FishingBot.play_minigame) and    *)
(* the Session Orchestrator (FishingBot.main_loop / FishingBot.run).       *)
(*                                                                         *)
(* Numbers.  The code computes with floats; the model computes the same    *)
(* quantities exactly.  Every time is an integer number of "ticks" of      *)
(* 1/12600 s, the smallest unit in which all of these are integers:        *)
(*   half a pixel of cursor travel (1/(2 * 4.2 * 60) s = 25 ticks),        *)
(*   one frame (1/60 s = 210 ticks), 0.27 s (3402 ticks),                  *)
(*   0.045 s (567 ticks), 0.6 s (7560 ticks), 5 s and 17 s.                *)
(* Pixel positions are integers; the centre of the bonus union may be a    *)
(* half pixel, so distances to it are kept doubled ("d2").                 *)
(* An Optional value is a sequence: << >> is None, <<v>> is the value v.   *)
(***************************************************************************)
EXTENDS Integers, Sequences, FiniteSets, TLC

(***************************************************************************)
(* Program constants                                                       *)
(***************************************************************************)
\* CURSOR_SPEED_PX_PER_FRAME = 4.2, in tenths of a pixel per frame
CURSOR_SPEED_X10 == 42
\* BLUE_ZONE_SHRINK_PX_PER_FRAME = 0.83, in hundredths of a pixel per frame
BLUE_ZONE_SHRINK_X100 == 83
\* the assumed frame rate ("/ 60.0", "* 60")
FPS == 60
\* one full cursor cycle in frames, and the frames of its rightward half
CYCLE_FRAMES == 176
HALF_CYCLE_FRAMES == 88
\* total_time = 17 (seconds)
total_time == 17
\* the action-latency buffer 0.27 s, in hundredths of a second
LATENCY_BUFFER_CS == 27
\* the input-latency compensation 0.045 s, in milliseconds
INPUT_COMPENSATION_MS == 45
\* the sanity ceiling 5.0 s
SANITY_CEILING_S == 5
\* the pause after a tap, 0.6 s, in tenths of a second
RESET_PAUSE_DS == 6
\* the smallest predicted width of the bonus union that is still usable
MIN_BLUE_WIDTH == 5
\* CoordCfg.progress_bar_left / progress_bar_right
progress_bar_left == 479
progress_bar_right == 863

\* the unit of time of the model: ticks per second
TicksPerSecond == 12600

TicksPerFrame == TicksPerSecond \div FPS
BudgetTicks == total_time * TicksPerSecond
LatencyBufferTicks == (LATENCY_BUFFER_CS * TicksPerSecond) \div 100
InputCompensationTicks == (INPUT_COMPENSATION_MS * TicksPerSecond) \div 1000
SanityCeilingTicks == SANITY_CEILING_S * TicksPerSecond
ResetPauseTicks == (RESET_PAUSE_DS * TicksPerSecond) \div 10
\* every elapsed time beyond the budget is represented by this one value
OverBudget == BudgetTicks + 1

(***************************************************************************)
(* Helpers                                                                 *)
(***************************************************************************)
None == << >>
Some(v) == << v >>
IsNone(o) == Len(o) = 0
Val(o) == o[1]

Abs(x) == IF x < 0 THEN -x ELSE x

RECURSIVE MinStart(_)
MinStart(regions) ==
    IF Len(regions) = 1 THEN regions[1][1]
    ELSE LET m == MinStart(Tail(regions))
         IN IF regions[1][1] < m THEN regions[1][1] ELSE m

RECURSIVE MaxEnd(_)
MaxEnd(regions) ==
    IF Len(regions) = 1 THEN regions[1][2]
    ELSE LET m == MaxEnd(Tail(regions))
         IN IF regions[1][2] > m THEN regions[1][2] ELSE m

\* the time, in ticks, the cursor needs for d2 half pixels:
\* (d2 / 2) / CURSOR_SPEED_PX_PER_FRAME / 60 s
TravelTicks(d2) == (d2 * 10 * TicksPerSecond) \div (2 * CURSOR_SPEED_X10 * FPS)

(***************************************************************************)
(* Zone Extractor: analyze_progress_bar.  A recognition result is a record *)
(* [hit, boxes]; a box is <<x, y, w, h>>; boxes[1] is the best result.     *)
(***************************************************************************)
BoxIntervals(boxes) ==
    [i \in 1..Len(boxes) |-> << boxes[i][1], boxes[i][1] + boxes[i][3] >>]

\* a variant that takes a cursor at x = 0 for no cursor
analyze_progress_bar_truthy_cursor(cursor_result, blue_result, yellow_result) ==
    LET cx == IF cursor_result.hit
              THEN Some(cursor_result.boxes[1][1] + (cursor_result.boxes[1][3] \div 2))
              ELSE None
        blue == IF blue_result.hit THEN BoxIntervals(blue_result.boxes) ELSE << >>
        yellow == IF yellow_result.hit THEN BoxIntervals(yellow_result.boxes) ELSE << >>
    IN [cursor_x |-> cx,
        blue_regions |-> blue,
        yellow_regions |-> yellow,
        valid |-> (~IsNone(cx)) /\ Val(cx) # 0 /\ (Len(blue) > 0 \/ Len(yellow) > 0)]

\* a variant that takes an observation with a cursor and no zone for valid
analyze_progress_bar_cursor_only(cursor_result, blue_result, yellow_result) ==
    LET cx == IF cursor_result.hit
              THEN Some(cursor_result.boxes[1][1] + (cursor_result.boxes[1][3] \div 2))
              ELSE None
        blue == IF blue_result.hit THEN BoxIntervals(blue_result.boxes) ELSE << >>
        yellow == IF yellow_result.hit THEN BoxIntervals(yellow_result.boxes) ELSE << >>
    IN [cursor_x |-> cx,
        blue_regions |-> blue,
        yellow_regions |-> yellow,
        valid |-> ~IsNone(cx)]

analyze_progress_bar(cursor_result, blue_result, yellow_result) ==
    LET cx == IF cursor_result.hit
              THEN Some(cursor_result.boxes[1][1] + (cursor_result.boxes[1][3] \div 2))
              ELSE None
        blue == IF blue_result.hit THEN BoxIntervals(blue_result.boxes) ELSE << >>
        yellow == IF yellow_result.hit THEN BoxIntervals(yellow_result.boxes) ELSE << >>
    IN [cursor_x |-> cx,
        blue_regions |-> blue,
        yellow_regions |-> yellow,
        valid |-> (~IsNone(cx)) /\ (Len(blue) > 0 \/ Len(yellow) > 0)]

(***************************************************************************)
(* Motion Model                                                            *)
(***************************************************************************)
\* a variant that takes frame 88 of the cycle for rightward
get_cursor_direction_from_frame_inclusive(frame_count) ==
    IF frame_count % CYCLE_FRAMES <= HALF_CYCLE_FRAMES THEN 1 ELSE -1

get_cursor_direction_from_frame(frame_count) ==
    IF frame_count % CYCLE_FRAMES < HALF_CYCLE_FRAMES THEN 1 ELSE -1

\* a variant that aims at the far edge of the zone when moving right
calculate_click_timing_far_edge(cursor_x, yellow_regions, current_frame, bar_left, bar_right) ==
    IF Len(yellow_regions) = 0 THEN None
    ELSE
    LET yellow_end == yellow_regions[1][2]
        total_distance == Abs(yellow_end - cursor_x)
        time_needed == TravelTicks(2 * total_distance)
    IN IF time_needed > SanityCeilingTicks THEN None ELSE Some(time_needed)

\* a variant whose sanity ceiling is 3 s
calculate_click_timing_ceiling_3s(cursor_x, yellow_regions, current_frame, bar_left, bar_right) ==
    IF Len(yellow_regions) = 0 THEN None
    ELSE
    LET yellow_start == yellow_regions[1][1]
        yellow_end == yellow_regions[1][2]
        cursor_direction == get_cursor_direction_from_frame(current_frame)
        target_x == IF cursor_direction > 0 THEN yellow_start ELSE yellow_end
        distance == target_x - cursor_x
        total_distance ==
            IF cursor_direction > 0 /\ distance < 0
            THEN (bar_right - cursor_x) + (bar_right - target_x)
            ELSE IF cursor_direction < 0 /\ distance > 0
            THEN (cursor_x - bar_left) + (target_x - bar_left)
            ELSE Abs(distance)
        time_needed == TravelTicks(2 * total_distance)
    IN IF time_needed > 3 * TicksPerSecond THEN None ELSE Some(time_needed)

\* a variant that takes a time of exactly 5 s for too long
calculate_click_timing_ceiling_inclusive(cursor_x, yellow_regions, current_frame, bar_left, bar_right) ==
    IF Len(yellow_regions) = 0 THEN None
    ELSE
    LET yellow_start == yellow_regions[1][1]
        yellow_end == yellow_regions[1][2]
        cursor_direction == get_cursor_direction_from_frame(current_frame)
        target_x == IF cursor_direction > 0 THEN yellow_start ELSE yellow_end
        distance == target_x - cursor_x
        total_distance ==
            IF cursor_direction > 0 /\ distance < 0
            THEN (bar_right - cursor_x) + (bar_right - target_x)
            ELSE IF cursor_direction < 0 /\ distance > 0
            THEN (cursor_x - bar_left) + (target_x - bar_left)
            ELSE Abs(distance)
        time_needed == TravelTicks(2 * total_distance)
    IN IF time_needed >= SanityCeilingTicks THEN None ELSE Some(time_needed)

\* a variant that counts whole frames only
calculate_click_timing_whole_frames(cursor_x, yellow_regions, current_frame, bar_left, bar_right) ==
    IF Len(yellow_regions) = 0 THEN None
    ELSE
    LET yellow_start == yellow_regions[1][1]
        yellow_end == yellow_regions[1][2]
        cursor_direction == get_cursor_direction_from_frame(current_frame)
        target_x == IF cursor_direction > 0 THEN yellow_start ELSE yellow_end
        distance == target_x - cursor_x
        total_distance ==
            IF cursor_direction > 0 /\ distance < 0
            THEN (bar_right - cursor_x) + (bar_right - target_x)
            ELSE IF cursor_direction < 0 /\ distance > 0
            THEN (cursor_x - bar_left) + (target_x - bar_left)
            ELSE Abs(distance)
        time_needed == ((total_distance * 10) \div CURSOR_SPEED_X10) * TicksPerFrame
    IN IF time_needed > SanityCeilingTicks THEN None ELSE Some(time_needed)

\* a variant that never models the bounce
calculate_click_timing_no_bounce(cursor_x, yellow_regions, current_frame, bar_left, bar_right) ==
    IF Len(yellow_regions) = 0 THEN None
    ELSE
    LET yellow_start == yellow_regions[1][1]
        yellow_end == yellow_regions[1][2]
        cursor_direction == get_cursor_direction_from_frame(current_frame)
        target_x == IF cursor_direction > 0 THEN yellow_start ELSE yellow_end
        time_needed == TravelTicks(2 * Abs(target_x - cursor_x))
    IN IF time_needed > SanityCeilingTicks THEN None ELSE Some(time_needed)

\* Optional time in ticks until the cursor reaches the near edge of the
\* first critical zone
calculate_click_timing(cursor_x, yellow_regions, current_frame, bar_left, bar_right) ==
    IF Len(yellow_regions) = 0 THEN None
    ELSE
    LET yellow_start == yellow_regions[1][1]
        yellow_end == yellow_regions[1][2]
        cursor_direction == get_cursor_direction_from_frame(current_frame)
        target_x == IF cursor_direction > 0 THEN yellow_start ELSE yellow_end
        distance == target_x - cursor_x
        total_distance ==
            IF cursor_direction > 0 /\ distance < 0
            THEN (bar_right - cursor_x) + (bar_right - target_x)
            ELSE IF cursor_direction < 0 /\ distance > 0
            THEN (cursor_x - bar_left) + (target_x - bar_left)
            ELSE Abs(distance)
        time_needed == TravelTicks(2 * total_distance)
    IN IF time_needed > SanityCeilingTicks THEN None ELSE Some(time_needed)

(***************************************************************************)
(* Zone Decay Model                                                        *)
(***************************************************************************)
\* a variant that counts the frames until the union is narrower than 5 px
calculate_blue_region_zero_frame_until_narrow(blue_regions) ==
    IF Len(blue_regions) = 0 THEN None
    ELSE LET leftmost == MinStart(blue_regions)
             rightmost == MaxEnd(blue_regions)
         IN Some(((Abs(rightmost - leftmost) - MIN_BLUE_WIDTH) * 100)
                   \div (2 * BLUE_ZONE_SHRINK_X100) + 1)

\* a variant that looks at the first bonus zone only
calculate_blue_region_zero_frame_first_only(blue_regions) ==
    IF Len(blue_regions) = 0 THEN None
    ELSE Some((Abs(blue_regions[1][2] - blue_regions[1][1]) * 100)
                \div (2 * BLUE_ZONE_SHRINK_X100))

\* a variant that does not halve the width
calculate_blue_region_zero_frame_full_width(blue_regions) ==
    IF Len(blue_regions) = 0 THEN None
    ELSE LET leftmost == MinStart(blue_regions)
             rightmost == MaxEnd(blue_regions)
         IN Some((Abs(rightmost - leftmost) * 100) \div BLUE_ZONE_SHRINK_X100)

\* Optional number of whole frames until the bonus union has shrunk to its
\* centre: int(((rightmost - leftmost) / 2) / 0.83)
calculate_blue_region_zero_frame(blue_regions) ==
    IF Len(blue_regions) = 0 THEN None
    ELSE LET leftmost == MinStart(blue_regions)
             rightmost == MaxEnd(blue_regions)
         IN Some((Abs(rightmost - leftmost) * 100) \div (2 * BLUE_ZONE_SHRINK_X100))

\* Optional time in ticks until the cursor reaches the centre of the bonus
\* union, None when the union is predicted to be narrower than 5 px then
calculate_blue_click_timing(cursor_x, blue_regions, current_frame) ==
    IF Len(blue_regions) = 0 THEN None
    ELSE
    LET blue_start == MinStart(blue_regions)
        blue_end == MaxEnd(blue_regions)
        \* 2 * |blue_center - cursor_x|
        total_distance2 == Abs(blue_start + blue_end - 2 * cursor_x)
        \* (predicted_blue_end - predicted_blue_start) < 5, all terms
        \* multiplied by 10 * CURSOR_SPEED_X10:
        \*   width - 2 * 0.83 * (total_distance2 / 2) / 4.2 < 5
        too_narrow ==
            10 * CURSOR_SPEED_X10 * (blue_end - blue_start)
              - BLUE_ZONE_SHRINK_X100 * total_distance2
            < 10 * CURSOR_SPEED_X10 * MIN_BLUE_WIDTH
        time_needed == TravelTicks(total_distance2)
    IN IF too_narrow THEN None
       ELSE IF time_needed > SanityCeilingTicks THEN None
       ELSE Some(time_needed)

(***************************************************************************)
(* Click Scheduler, steps 2-5 of one tick: the decision                    *)
(***************************************************************************)
\* frame = int((current_time - start_time) * 60)
FrameOf(since_start) == since_start \div TicksPerFrame

\* a variant that takes the frame count for seconds
BlueRegionZeroTime_frames_as_seconds(blue_regions) ==
    LET frames_to_zero == calculate_blue_region_zero_frame(blue_regions)
    IN IF IsNone(frames_to_zero) THEN None
       ELSE Some(Val(frames_to_zero) * TicksPerSecond)

\* blue_region_zero_time, Optional ticks
BlueRegionZeroTime(blue_regions) ==
    LET frames_to_zero == calculate_blue_region_zero_frame(blue_regions)
    IN IF IsNone(frames_to_zero) THEN None
       ELSE Some(Val(frames_to_zero) * TicksPerFrame)

\* a variant without the test against the last critical zone
should_click_yellow_any(cursor_x, yellow_regions) == Len(yellow_regions) > 0

\* a variant that asks for the margin on either side of the zone's end
should_click_yellow_either_side(cursor_x, yellow_regions) ==
    /\ Len(yellow_regions) > 0
    /\ 1000 * Abs(yellow_regions[Len(yellow_regions)][2] - cursor_x)
         > CURSOR_SPEED_X10 * LATENCY_BUFFER_CS * FPS

\* a variant whose look-ahead margin is 16 px
should_click_yellow_16px(cursor_x, yellow_regions) ==
    /\ Len(yellow_regions) > 0
    /\ cursor_x + 16 < yellow_regions[Len(yellow_regions)][2]

\* cursor_x + CURSOR_SPEED_PX_PER_FRAME * 0.27 * 60 < last_yellow_end,
\* both sides multiplied by 1000
should_click_yellow(cursor_x, yellow_regions) ==
    /\ Len(yellow_regions) > 0
    /\ 1000 * cursor_x + CURSOR_SPEED_X10 * LATENCY_BUFFER_CS * FPS
         < 1000 * yellow_regions[Len(yellow_regions)][2]

\* wait_time + 0.27 < blue_region_zero_time, or no bonus zone at all
BeforeVanish(wait_time, zero_time) ==
    IsNone(zero_time) \/ Val(wait_time) + LatencyBufferTicks < Val(zero_time)

YellowWait(bar_info, frame, bar_left, bar_right) ==
    IF should_click_yellow(Val(bar_info.cursor_x), bar_info.yellow_regions)
    THEN calculate_click_timing(Val(bar_info.cursor_x), bar_info.yellow_regions,
                                frame, bar_left, bar_right)
    ELSE None

YellowAccepted(bar_info, frame, bar_left, bar_right) ==
    LET w == YellowWait(bar_info, frame, bar_left, bar_right)
    IN (~IsNone(w)) /\ BeforeVanish(w, BlueRegionZeroTime(bar_info.blue_regions))

BlueWait(bar_info, frame) ==
    IF Len(bar_info.blue_regions) > 0
    THEN calculate_blue_click_timing(Val(bar_info.cursor_x), bar_info.blue_regions, frame)
    ELSE None

BlueAccepted(bar_info, frame) ==
    LET w == BlueWait(bar_info, frame)
    IN (~IsNone(w)) /\ BeforeVanish(w, BlueRegionZeroTime(bar_info.blue_regions))

\* a variant that tries the bonus target first
Decide_blue_first(bar_info, frame, bar_left, bar_right) ==
    IF BlueAccepted(bar_info, frame)
    THEN [target_zone |-> "blue", wait_time |-> BlueWait(bar_info, frame)]
    ELSE IF YellowAccepted(bar_info, frame, bar_left, bar_right)
    THEN [target_zone |-> "yellow",
          wait_time |-> YellowWait(bar_info, frame, bar_left, bar_right)]
    ELSE [target_zone |-> "none", wait_time |-> None]

\* the decision of a tick with a valid observation:
\* target_zone in {"yellow", "blue", "none"} and wait_time (Optional ticks)
Decide(bar_info, frame, bar_left, bar_right) ==
    IF YellowAccepted(bar_info, frame, bar_left, bar_right)
    THEN [target_zone |-> "yellow",
          wait_time |-> YellowWait(bar_info, frame, bar_left, bar_right)]
    ELSE IF BlueAccepted(bar_info, frame)
    THEN [target_zone |-> "blue", wait_time |-> BlueWait(bar_info, frame)]
    ELSE [target_zone |-> "none", wait_time |-> None]

\* the timing helpers a tick calls, in order, and what each returned
TimingCalls(bar_info, frame, bar_left, bar_right) ==
    (IF should_click_yellow(Val(bar_info.cursor_x), bar_info.yellow_regions)
     THEN << [fn |-> "calculate_click_timing",
              ret |-> YellowWait(bar_info, frame, bar_left, bar_right)] >>
     ELSE << >>)
    \o
    (IF (~YellowAccepted(bar_info, frame, bar_left, bar_right))
          /\ Len(bar_info.blue_regions) > 0
     THEN << [fn |-> "calculate_blue_click_timing",
              ret |-> BlueWait(bar_info, frame)] >>
     ELSE << >>)

(***************************************************************************)
(* Bounds of the model                                                     *)
(***************************************************************************)
\* the largest max_count a session is started with
MaxCount == 2
\* the largest sell_interval a bot is constructed with
MaxSellInterval == 2
\* the taps of one round are counted exactly up to this
MaxClicks == 3
\* the calls of FishingBot.run on one bot
MaxRuns == 2

(***************************************************************************)
(* Inputs: what the recognition oracle and the clock can deliver           *)
(***************************************************************************)
Box(x, w) == << x, 613, w, 10 >>
Hit(boxes) == [hit |-> TRUE, boxes |-> boxes]
Miss == [hit |-> FALSE, boxes |-> << >>]
\* a cursor match whose box centre is x
CursorAt(x) == Hit(<< Box(x - 4, 8) >>)
Zone(s, e) == Box(s, e - s)
Scene(c, b, y) == [cursor |-> c, blue |-> b, yellow |-> y]

Scenes ==
    { Scene(Miss, Hit(<< Zone(560, 700) >>), Miss),
      Scene(CursorAt(500), Miss, Miss),
      Scene(CursorAt(500), Miss, Hit(<< Zone(520, 540) >>)),
      Scene(CursorAt(500), Miss, Hit(<< Zone(520, 570) >>)),
      Scene(CursorAt(700), Miss, Hit(<< Zone(520, 540) >>)),
      Scene(CursorAt(700), Hit(<< Zone(720, 860) >>), Hit(<< Zone(520, 540) >>)),
      Scene(CursorAt(700), Hit(<< Zone(720, 724) >>), Hit(<< Zone(520, 540) >>)),
      Scene(CursorAt(500), Hit(<< Zone(560, 700) >>), Hit(<< Zone(600, 640) >>)),
      Scene(CursorAt(500), Hit(<< Zone(500, 560) >>), Hit(<< Zone(640, 660) >>)),
      Scene(CursorAt(500), Hit(<< Zone(600, 640) >>), Hit(<< Zone(640, 660) >>)),
      Scene(CursorAt(600), Hit(<< Zone(500, 560) >>), Miss),
      Scene(CursorAt(500), Hit(<< Zone(600, 601) >>), Miss),
      Scene(CursorAt(500), Miss, Hit(<< Zone(780, 800), Zone(820, 840) >>)),
      Scene(CursorAt(500), Hit(<< Zone(540, 560), Zone(500, 520) >>), Miss),
      Scene(CursorAt(100), Miss, Hit(<< Zone(1400, 1500) >>)),
      Scene(Hit(<< Box(0, 1) >>), Miss, Hit(<< Zone(60, 80) >>)),
      Scene(CursorAt(900), Miss, Hit(<< Zone(880, 1000) >>)),
      Scene(CursorAt(100), Miss, Hit(<< Zone(1360, 1500) >>)),
      Scene(CursorAt(1600), Hit(<< Zone(0, 600) >>), Miss),
      Scene(CursorAt(1560), Hit(<< Zone(0, 600) >>), Miss),
      Scene(CursorAt(100), Hit(<< Zone(120, 200) >>), Hit(<< Zone(1400, 1500) >>)) }

\* the time between the last assignment of start_time (or the end of the
\* last tick) and the read of current_time
Gaps == { 0, 2 * TicksPerSecond }
\* the time from the read of current_time to the read of now: a capture and
\* three recognition calls take time
Tooks == { TicksPerSecond, 8 * TicksPerSecond }

\* what the recognition call does with a missing frame: it raises, or it
\* reports no match
MissingFrameOutcomes == { "raise", "no_hit" }

\* the three recognition results on a missing frame that did not raise
MissingScene == Scene(Miss, Miss, Miss)

\* elapsed times beyond the budget are all alike to the code
Sat(t) == IF t > BudgetTicks THEN OverBudget ELSE t

\* the code sets no limit to the taps of a round and reads click_count only
\* as click_count > 0: the counts above MaxClicks are all alike to it, and
\* OverClicks stands for every one of them
OverClicks == MaxClicks + 1
SatClicks(n) == IF n > MaxClicks THEN OverClicks ELSE n

\* the taps of an attempt are logged as they are counted
LogCastTap(l) ==
    IF Len(SelectSeq(l, LAMBDA e : e = "cast_rod")) > MaxClicks
    THEN l
    ELSE Append(l, "cast_rod")

(***************************************************************************)
(* State                                                                   *)
(***************************************************************************)
VARIABLES
    pc,                   \* where the control of the session is
    running,              \* FishingBot.running
    stopping,             \* context.tasker.stopping
    max_count,            \* the argument of FishingBot.run
    sell_interval,        \* FishingBot.sell_interval
    fish_count,           \* FishingBot.fish_count
    success_count,        \* FishingBot.success_count
    fish_since_last_sell, \* FishingBot.fish_since_last_sell
    total_sell_count,     \* FishingBot.total_sell_count
    clock,                \* time.time() - start_time of play_minigame, in ticks
    click_count,          \* play_minigame's click_count
    bar_info,             \* Optional observation of the current tick
    frame,                \* play_minigame's frame
    target_zone,          \* "yellow", "blue" or "none"
    wait_time,            \* Optional ticks
    elapsed,              \* now - current_time, in ticks
    round_result,         \* Optional return value of play_minigame
    run_result,           \* Optional return value of FishingBot.run
    tick,                 \* what the current tick has done so far
    log,                  \* the taps and sells of the current attempt
    runs,                 \* the calls of FishingBot.run on this bot so far
    call,                 \* Optional: the helper last called on its own
    ret                   \* Optional: what that call returned

vars == << pc, running, stopping, max_count, sell_interval, fish_count,
           success_count, fish_since_last_sell, total_sell_count, clock,
           click_count, bar_info, frame, target_zone, wait_time, elapsed,
           round_result, run_result, tick, log, runs, call, ret >>

helper == << call, ret >>
session == << max_count, sell_interval >>
counters == << fish_count, success_count, fish_since_last_sell, total_sell_count >>
decision == << bar_info, frame, target_zone, wait_time, elapsed >>

\* a tick that has done nothing yet
FreshTick(since_start, clicks) ==
    [current |-> since_start,  \* current_time - start_time
     clicks_at_top |-> clicks, \* click_count when the tick began
     outcome |-> "top",        \* how the tick went on after the loop test
     captures |-> 0,           \* calls of get_screenshot
     frame_missing |-> FALSE,  \* get_screenshot returned None
     extractions |-> 0,        \* calls of analyze_progress_bar
     results |-> << >>,        \* what its recognition calls have returned so far
     sleeps |-> << >>,         \* the durations of the calls of delay
     taps |-> 0,               \* calls of tap
     timing |-> << >>,         \* the timing helpers called, with their results
     restarted |-> FALSE]      \* start_time was assigned

Init ==
    /\ pc = "idle"
    /\ running = FALSE
    /\ stopping = FALSE
    /\ max_count \in 1..MaxCount
    /\ sell_interval \in 1..MaxSellInterval
    /\ fish_count = 0
    /\ success_count = 0
    /\ fish_since_last_sell = 0
    /\ total_sell_count = 0
    /\ clock = 0
    /\ click_count = 0
    /\ bar_info = None
    /\ frame = 0
    /\ target_zone = "none"
    /\ wait_time = None
    /\ elapsed = 0
    /\ round_result = None
    /\ run_result = None
    /\ tick = FreshTick(0, 0)
    /\ log = << >>
    /\ runs = 0
    /\ call = None
    /\ ret = None

(***************************************************************************)
(* Session Orchestrator: FishingBot.run and FishingBot.main_loop           *)
(***************************************************************************)
\* a variant that does not look at the tasker
StopSignal_running_only == ~running

\* the stop signal as the loops of run, play_minigame test it
StopSignal == ~(running /\ ~stopping)

\* FishingBot.run up to its loop
RunStart ==
    /\ pc = "idle"
    /\ runs' = runs + 1
    /\ running' = TRUE
    /\ fish_count' = 0
    /\ success_count' = 0
    /\ pc' = "run_loop"
    /\ UNCHANGED << stopping, session, helper, fish_since_last_sell, total_sell_count,
                    clock, click_count, decision, round_result, run_result,
                    tick, log >>

\* FishingBot.run is called again, with an argument of its own, on a bot
\* whose earlier call has returned or was left by an exception
RunAgain(count) ==
    /\ pc \in { "returned", "crashed" }
    /\ runs < MaxRuns
    /\ runs' = runs + 1
    /\ max_count' = count
    /\ running' = TRUE
    /\ fish_count' = 0
    /\ success_count' = 0
    /\ run_result' = None
    /\ pc' = "run_loop"
    /\ UNCHANGED << stopping, sell_interval, helper, fish_since_last_sell,
                    total_sell_count, clock, click_count, decision, round_result,
                    tick, log >>

\* the loop of run is left: finally running = False, return success_count > 0
RunReturn ==
    /\ pc = "run_loop"
    /\ StopSignal \/ (max_count # 0 /\ fish_count >= max_count)
    /\ running' = FALSE
    /\ run_result' = Some(success_count > 0)
    /\ pc' = "returned"
    /\ UNCHANGED << stopping, session, runs, helper, counters, clock, click_count, decision,
                    round_result, tick, log >>

\* a variant whose loop stops only above max_count
MainLoopBegin_late_limit ==
    /\ pc = "run_loop"
    /\ ~StopSignal
    /\ ~(max_count # 0 /\ fish_count > max_count)
    /\ fish_count' = fish_count + 1
    /\ log' = << >>
    /\ pc' = "cast"
    /\ UNCHANGED << running, stopping, session, runs, helper, success_count,
                    fish_since_last_sell, total_sell_count, clock, click_count,
                    decision, round_result, run_result, tick >>

\* the loop test of run passes and main_loop begins: fish_count += 1, then
\* context.run_task("Casting_Rod") is called and blocks
MainLoopBegin ==
    /\ pc = "run_loop"
    /\ ~StopSignal
    /\ ~(max_count # 0 /\ fish_count >= max_count)
    /\ fish_count' = fish_count + 1
    /\ log' = << >>
    /\ pc' = "cast"
    /\ UNCHANGED << running, stopping, session, runs, helper, success_count,
                    fish_since_last_sell, total_sell_count, clock, click_count,
                    decision, round_result, run_result, tick >>

\* what run_task("Casting_Rod") hands back: a detail whose last node
\* succeeded, None or a detail whose last node failed, or a detail with no
\* node at all
CastOutcomes == { "bite", "no_bite", "no_nodes" }

\* run_task returns: on a bite delay(after_cast) is called and blocks; with
\* no bite main_loop returns False; casting_result.nodes[-1] of an empty
\* list raises, and the exception leaves main_loop and run, whose finally
\* clause sets running = False
CastReturns(outcome) ==
    /\ pc = "cast"
    /\ pc' = CASE outcome = "bite" -> "after_cast"
               [] outcome = "no_bite" -> "run_loop"
               [] outcome = "no_nodes" -> "crashed"
    /\ running' = IF outcome = "no_nodes" THEN FALSE ELSE running
    /\ UNCHANGED << stopping, session, runs, helper, counters, clock, click_count,
                    decision, round_result, run_result, tick, log >>

\* delay(after_cast) returns and play_minigame begins:
\* start_time = time.time(), click_count = 0
RoundStart ==
    /\ pc = "after_cast"
    /\ pc' = "tick_top"
    /\ clock' = 0
    /\ click_count' = 0
    /\ UNCHANGED << running, stopping, session, runs, helper, counters, decision,
                    round_result, run_result, tick, log >>

\* a variant that sells only once the interval is exceeded
SellDue_strict(since) == since > sell_interval

\* sell_all_fish, called by check_and_sell_fish
SellDue(since) == since >= sell_interval

\* main_loop after play_minigame has returned: success = its result, the
\* counters; then delay(after_catch) is called and blocks
CountRound ==
    /\ pc = "round_done"
    /\ IF Val(round_result)
       THEN /\ success_count' = success_count + 1
            /\ fish_since_last_sell' = fish_since_last_sell + 1
       ELSE UNCHANGED << success_count, fish_since_last_sell >>
    /\ pc' = "settle"
    /\ UNCHANGED << running, stopping, session, runs, helper, fish_count, total_sell_count,
                    clock, click_count, decision, round_result, run_result,
                    tick, log >>

\* delay(after_catch) returns; self.tap(*self.coords.screen_center) posts
\* the click and waits for it
SettleDelay ==
    /\ pc = "settle"
    \* the locals of play_minigame are gone
    /\ clock' = 0
    /\ click_count' = 0
    /\ bar_info' = None
    /\ frame' = 0
    /\ target_zone' = "none"
    /\ wait_time' = None
    /\ elapsed' = 0
    /\ tick' = FreshTick(0, 0)
    /\ pc' = "settle_tap"
    /\ UNCHANGED << running, stopping, session, runs, helper, counters, round_result,
                    run_result, log >>

\* the click at the screen centre is done; delay(1.0) is called and blocks
SettleTap ==
    /\ pc = "settle_tap"
    /\ log' = Append(log, "screen_center")
    /\ pc' = "settle_pause"
    /\ UNCHANGED << running, stopping, session, runs, helper, counters, clock, click_count,
                    decision, round_result, run_result, tick >>

\* delay(1.0) returns; if success: check_and_sell_fish(), whose
\* sell_all_fish calls get_screenshot; else main_loop returns
SettlePause ==
    /\ pc = "settle_pause"
    /\ IF Val(round_result) /\ SellDue(fish_since_last_sell)
       THEN /\ pc' = "sell_capture"
            /\ UNCHANGED round_result
       ELSE /\ pc' = "run_loop"
            /\ round_result' = None
    /\ UNCHANGED << running, stopping, session, runs, helper, counters, clock, click_count,
                    decision, run_result, tick, log >>

\* sell_all_fish: total_sell_count += 1, fish_since_last_sell = 0, then
\* delay(1.0) is called and blocks
SellCounted ==
    /\ total_sell_count' = total_sell_count + 1
    /\ fish_since_last_sell' = 0
    /\ log' = Append(log, "sell")
    /\ pc' = "sell_pause"
    /\ UNCHANGED << running, stopping, session, runs, helper, fish_count, success_count,
                    clock, click_count, decision, round_result, run_result, tick >>

\* get_screenshot of sell_all_fish returns: with a frame
\* run_recognition("SellFish_Start") is called and blocks, without one the
\* counters are written at once
SellCapture(frame_ok) ==
    /\ pc = "sell_capture"
    /\ IF frame_ok
       THEN /\ pc' = "sell_reco"
            /\ UNCHANGED << running, stopping, session, runs, helper, counters, clock,
                            click_count, decision, round_result, run_result, tick, log >>
       ELSE SellCounted

\* run_recognition("SellFish_Start") returns
SellRecognised ==
    /\ pc = "sell_reco"
    /\ SellCounted

\* the delay(1.0) of sell_all_fish returns, and main_loop returns
SellPause ==
    /\ pc = "sell_pause"
    /\ pc' = "run_loop"
    /\ round_result' = None
    /\ UNCHANGED << running, stopping, session, runs, helper, counters, clock, click_count,
                    decision, run_result, tick, log >>

\* the tasker is told to stop; it is another thread and does so whatever
\* the bot is doing
SetStop ==
    /\ ~stopping
    /\ stopping' = TRUE
    /\ UNCHANGED << pc, running, session, runs, helper, counters, clock, click_count,
                    decision, round_result, run_result, tick, log >>

(***************************************************************************)
(* Click Scheduler: FishingBot.play_minigame                               *)
(***************************************************************************)
\* play_minigame returns: of its locals only the click count and the last
\* observation are kept on, for the properties to speak of
ReturnFromRound(last_info) ==
    /\ clock' = 0
    /\ bar_info' = last_info
    /\ frame' = 0
    /\ target_zone' = "none"
    /\ wait_time' = None
    /\ elapsed' = 0

\* the loop test fails: return False
TickAbort ==
    /\ pc = "tick_top"
    /\ StopSignal
    /\ round_result' = Some(FALSE)
    /\ tick' = [FreshTick(0, click_count) EXCEPT !.outcome = "aborted"]
    /\ pc' = "round_done"
    /\ ReturnFromRound(None)
    /\ UNCHANGED << running, stopping, session, runs, helper, counters, click_count,
                    run_result, log >>

\* the loop test passes: current_time = time.time(),
\* frame = int((current_time - start_time) * 60), then get_screenshot is
\* called and blocks; gap is the time since start_time was assigned or the
\* last tick ended
TickEnter(gap) ==
    /\ pc = "tick_top"
    /\ ~StopSignal
    /\ LET current == Sat(clock + gap)
       IN /\ tick' = [FreshTick(current, click_count) EXCEPT !.captures = 1]
          /\ frame' = FrameOf(current)
    /\ pc' = "capture"
    /\ UNCHANGED << running, stopping, session, runs, helper, counters, clock, click_count,
                    bar_info, target_zone, wait_time, elapsed, round_result,
                    run_result, log >>

\* current_time - start_time > total_time
TimedOut(current) == current > BudgetTicks

\* a variant that reports every timeout as a failure
TimeoutResult_always_false(clicks) == FALSE

\* return True if click_count > 0 else False
TimeoutResult(clicks) == clicks > 0

\* a variant that forgets the time the analysis took
AdjustedWait_no_elapsed(wait, took) == wait - InputCompensationTicks

\* adjusted_wait = wait_time - elapsed - 0.045
AdjustedWait(wait, took) == wait - took - InputCompensationTicks

\* get_screenshot returns and the timeout check fires
TickTimeout(frame_ok) ==
    /\ pc = "capture"
    /\ TimedOut(tick.current)
    /\ tick' = [tick EXCEPT !.frame_missing = ~frame_ok, !.outcome = "timeout"]
    /\ round_result' = Some(TimeoutResult(click_count))
    /\ pc' = "round_done"
    /\ ReturnFromRound(None)
    /\ UNCHANGED << running, stopping, session, runs, helper, counters, click_count,
                    run_result, log >>

\* get_screenshot returns, with a frame or with None, and the timeout check
\* does not fire: analyze_progress_bar is called with what was returned, and
\* run_recognition("Detect_Progress_White_Cursor") is called and blocks
TickAnalyze(frame_ok) ==
    /\ pc = "capture"
    /\ ~TimedOut(tick.current)
    /\ tick' = [tick EXCEPT !.frame_missing = ~frame_ok, !.extractions = 1]
    /\ pc' = "analyze"
    /\ UNCHANGED << running, stopping, session, runs, helper, counters, clock, click_count,
                    decision, round_result, run_result, log >>

\* the triples of recognition results the frame of this tick can give
Observable == IF tick.frame_missing THEN { MissingScene } ELSE Scenes

\* the scenes that agree with the results received so far
Agrees(scene) ==
    /\ scene \in Observable
    /\ Len(tick.results) >= 1 => scene.cursor = tick.results[1]
    /\ Len(tick.results) >= 2 => scene.blue = tick.results[2]

\* the cursor recognition was called with the missing frame: it raises, or
\* it reports no match and run_recognition("Detect_Progress_Blue_Zones") is
\* called and blocks
TickMissingFrame(outcome) ==
    /\ pc = "analyze"
    /\ tick.frame_missing
    /\ IF outcome = "raise"
       THEN \* the exception leaves play_minigame, main_loop and run,
            \* whose finally clause sets running = False
            /\ tick' = [tick EXCEPT !.outcome = "raised"]
            /\ pc' = "crashed"
            /\ running' = FALSE
            /\ ReturnFromRound(None)
       ELSE /\ tick' = [tick EXCEPT !.results = << Miss >>]
            /\ pc' = "reco_blue"
            /\ UNCHANGED << running, clock, decision >>
    /\ UNCHANGED << stopping, session, runs, helper, counters, click_count, round_result,
                    run_result, log >>

\* the cursor recognition returns; run_recognition("Detect_Progress_Blue_Zones")
\* is called and blocks
RecoCursor(scene) ==
    /\ pc = "analyze"
    /\ ~tick.frame_missing
    /\ Agrees(scene)
    /\ tick' = [tick EXCEPT !.results = << scene.cursor >>]
    /\ pc' = "reco_blue"
    /\ UNCHANGED << running, stopping, session, runs, helper, counters, clock, click_count,
                    decision, round_result, run_result, log >>

\* the bonus-zone recognition returns;
\* run_recognition("Detect_Progress_Yellow_Zones") is called and blocks
RecoBlue(scene) ==
    /\ pc = "reco_blue"
    /\ Agrees(scene)
    /\ tick' = [tick EXCEPT !.results = Append(@, scene.blue)]
    /\ pc' = "reco_yellow"
    /\ UNCHANGED << running, stopping, session, runs, helper, counters, clock, click_count,
                    decision, round_result, run_result, log >>

\* the critical-zone recognition returns and the observation is not valid:
\* return True
TickInvalid(scene) ==
    /\ pc = "reco_yellow"
    /\ Agrees(scene)
    /\ LET info == analyze_progress_bar(scene.cursor, scene.blue, scene.yellow)
       IN /\ ~info.valid
          /\ ReturnFromRound(Some(info))
    /\ tick' = [tick EXCEPT !.outcome = "invalid", !.results = Append(@, scene.yellow)]
    /\ round_result' = Some(TRUE)
    /\ pc' = "round_done"
    /\ UNCHANGED << running, stopping, session, runs, helper, counters, click_count,
                    run_result, log >>

\* a variant whose decision looks at the click count
TickDecision_until_first_click(info) ==
    IF click_count > 0
    THEN [target_zone |-> "none", wait_time |-> None]
    ELSE Decide(info, frame, progress_bar_left, progress_bar_right)

\* the decision of the tick: from the observation, the frame computed at
\* the top of the tick and the configured field
TickDecision(info) == Decide(info, frame, progress_bar_left, progress_bar_right)

\* the critical-zone recognition returns with a valid observation, and the
\* decision; took is the time from reading current_time to reading now. With no target and a positive vanish time
\* delay(blue_region_zero_time) is called and blocks; with an accepted
\* target delay(adjusted_wait) is, or the click is posted at once
TickDecide(took, scene) ==
    /\ pc = "reco_yellow"
    /\ Agrees(scene)
    /\ LET current == tick.current
           info == analyze_progress_bar(scene.cursor, scene.blue, scene.yellow)
           d == TickDecision(info)
           zero_time == BlueRegionZeroTime(info.blue_regions)
           sampled == [tick EXCEPT
                         !.results = Append(@, scene.yellow),
                         !.timing = TimingCalls(info, frame, progress_bar_left,
                                                progress_bar_right)]
       IN /\ info.valid
          /\ bar_info' = Some(info)
          /\ target_zone' = d.target_zone
          /\ wait_time' = d.wait_time
          /\ IF d.target_zone = "none"
             THEN /\ UNCHANGED elapsed
                  /\ IF (~IsNone(zero_time)) /\ Val(zero_time) > 0
                     THEN \* self.delay(blue_region_zero_time)
                          /\ tick' = [sampled EXCEPT !.outcome = "idle"]
                          /\ UNCHANGED clock
                          /\ pc' = "idle_sleep"
                     ELSE \* continue
                          /\ tick' = [sampled EXCEPT !.outcome = "retry"]
                          /\ clock' = Sat(current + took)
                          /\ pc' = "tick_end"
             ELSE /\ elapsed' = took
                  /\ tick' = [sampled EXCEPT !.outcome = "accepted"]
                  /\ UNCHANGED clock
                  /\ pc' = IF AdjustedWait(Val(d.wait_time), took) > 0
                           THEN "wait_sleep" ELSE "tap"
    /\ UNCHANGED << running, stopping, session, runs, helper, counters, click_count,
                    frame, round_result, run_result, log >>

\* delay(blue_region_zero_time) returns: start_time = time.time(); continue
IdleWake ==
    /\ pc = "idle_sleep"
    /\ tick' = [tick EXCEPT
                  !.sleeps = Append(@, Val(BlueRegionZeroTime(Val(bar_info).blue_regions))),
                  !.restarted = TRUE]
    /\ clock' = 0
    /\ pc' = "tick_end"
    /\ UNCHANGED << running, stopping, session, runs, helper, counters, click_count,
                    decision, round_result, run_result, log >>

\* delay(adjusted_wait) returns; self.tap(*self.coords.cast_rod) posts the
\* click and waits for it
WaitSleep ==
    /\ pc = "wait_sleep"
    /\ tick' = [tick EXCEPT
                  !.sleeps = Append(@, AdjustedWait(Val(wait_time), elapsed))]
    /\ pc' = "tap"
    /\ UNCHANGED << running, stopping, session, runs, helper, counters, clock, click_count,
                    decision, round_result, run_result, log >>

\* the click at the cast point is done: click_count += 1, then delay(0.6)
\* is called and blocks
Tap ==
    /\ pc = "tap"
    /\ log' = LogCastTap(log)
    /\ click_count' = SatClicks(click_count + 1)
    /\ tick' = [tick EXCEPT !.taps = @ + 1]
    /\ pc' = "reset_pause"
    /\ UNCHANGED << running, stopping, session, runs, helper, counters, clock, decision,
                    round_result, run_result >>

\* delay(0.6) returns: start_time = time.time()
ResetPause ==
    /\ pc = "reset_pause"
    /\ tick' = [tick EXCEPT !.sleeps = Append(@, ResetPauseTicks),
                            !.restarted = TRUE]
    /\ clock' = 0
    /\ pc' = "tick_end"
    /\ UNCHANGED << running, stopping, session, runs, helper, counters, click_count,
                    decision, round_result, run_result, log >>

\* continue, or the end of the loop body: back to the loop test; the next
\* tick assigns every local of the tick before it reads it
LoopBack ==
    /\ pc = "tick_end"
    /\ pc' = "tick_top"
    /\ bar_info' = None
    /\ frame' = 0
    /\ target_zone' = "none"
    /\ wait_time' = None
    /\ elapsed' = 0
    /\ tick' = FreshTick(0, click_count)
    /\ UNCHANGED << running, stopping, session, runs, helper, counters, clock, click_count,
                    round_result, run_result, log >>

(***************************************************************************)
(* Specification                                                           *)
(***************************************************************************)
\* the steps of the bot: every blocking call returns
BotNext ==
    \/ RunStart
    \/ RunReturn
    \/ MainLoopBegin
    \/ \E outcome \in CastOutcomes : CastReturns(outcome)
    \/ RoundStart
    \/ CountRound
    \/ SettleDelay
    \/ SettleTap
    \/ SettlePause
    \/ \E frame_ok \in BOOLEAN : SellCapture(frame_ok)
    \/ SellRecognised
    \/ SellPause
    \/ TickAbort
    \/ \E gap \in Gaps : TickEnter(gap)
    \/ \E frame_ok \in BOOLEAN : TickTimeout(frame_ok)
    \/ \E frame_ok \in BOOLEAN : TickAnalyze(frame_ok)
    \/ \E outcome \in MissingFrameOutcomes : TickMissingFrame(outcome)
    \/ \E scene \in Scenes : RecoCursor(scene)
    \/ \E scene \in Scenes \cup { MissingScene } : RecoBlue(scene)
    \/ \E scene \in Scenes \cup { MissingScene } : TickInvalid(scene)
    \/ \E took \in Tooks, scene \in Scenes : TickDecide(took, scene)
    \/ IdleWake
    \/ WaitSleep
    \/ Tap
    \/ ResetPause
    \/ LoopBack

Next ==
    \/ BotNext
    \/ SetStop

Spec == Init /\ [][Next]_vars

\* the bot runs on a thread of its own: it always takes its next step, and
\* every capture, recognition, sleep and tap returns
FairSpec == Spec /\ WF_vars(BotNext)

\* one bot whose run method is called up to MaxRuns times
RerunNext ==
    \/ Next
    \/ \E count \in 1..MaxCount : RunAgain(count)

RerunSpec == Init /\ [][RerunNext]_vars

(***************************************************************************)
(* The helpers of FishingBot called on their own, on a bot that has just   *)
(* been constructed: call holds the helper and its arguments, ret what it  *)
(* returned.                                                               *)
(***************************************************************************)
\* the frame counts a direction is asked for: 0..MaxFrame
MaxFrame == 360

\* one frame count of a rightward and one of a leftward half cycle
FnFrames == { 0, 100 }
\* the field bounds a bot is constructed with (CoordCfg)
FnCoords == { << progress_bar_left, progress_bar_right >>, << 0, 800 >> }
FnCursors == { 100, 101, 479, 480, 500, 700, 862, 863, 900, 1560, 1600 }
FnYellowLists ==
    { << << 50, 200 >> >>,
      << << 479, 863 >> >>,
      << << 520, 540 >> >>,
      << << 520, 800 >> >>,
      << << 1360, 1500 >> >>,
      << << 1361, 1500 >> >>,
      << << 880, 1000 >> >>,
      << << 780, 800 >>, << 820, 840 >> >> }
FnBlueLists ==
    { << >>,
      << << 400, 420 >> >>,
      << << 600, 601 >> >>,
      << << 0, 600 >> >>,
      << << 560, 700 >> >>,
      << << 0, 83 >> >>,
      << << 540, 560 >>, << 500, 520 >> >>,
      << << 500, 520 >>, << 540, 560 >> >>,
      << << 500, 560 >>, << 510, 520 >> >> }
FnCursorResults == { Miss, Hit(<< Box(0, 1) >>), Hit(<< Box(10, 9) >>), CursorAt(500) }
FnZoneResults ==
    { Miss, Hit(<< >>), Hit(<< Zone(520, 540) >>), Hit(<< Zone(600, 600) >>),
      Hit(<< Zone(540, 560), Zone(500, 520) >>) }

\* everything but call and ret
bot == << pc, running, stopping, session, counters, clock, click_count,
          decision, round_result, run_result, tick, log, runs >>

FnInit ==
    /\ pc = "helper"
    /\ running = FALSE
    /\ stopping = FALSE
    /\ max_count = 1
    /\ sell_interval = 1
    /\ fish_count = 0
    /\ success_count = 0
    /\ fish_since_last_sell = 0
    /\ total_sell_count = 0
    /\ clock = 0
    /\ click_count = 0
    /\ bar_info = None
    /\ frame = 0
    /\ target_zone = "none"
    /\ wait_time = None
    /\ elapsed = 0
    /\ round_result = None
    /\ run_result = None
    /\ tick = FreshTick(0, 0)
    /\ log = << >>
    /\ runs = 0
    /\ call = None
    /\ ret = None

CallDirection(frame_count) ==
    /\ pc = "helper"
    /\ call' = Some([fn |-> "get_cursor_direction_from_frame",
                     frame_count |-> frame_count])
    /\ ret' = Some(get_cursor_direction_from_frame(frame_count))
    /\ UNCHANGED bot

CallClickTiming(cursor_x, yellow_regions, current_frame, coords) ==
    /\ pc = "helper"
    /\ call' = Some([fn |-> "calculate_click_timing",
                     cursor_x |-> cursor_x,
                     yellow_regions |-> yellow_regions,
                     current_frame |-> current_frame,
                     bar_left |-> coords[1],
                     bar_right |-> coords[2]])
    /\ ret' = Some(calculate_click_timing(cursor_x, yellow_regions, current_frame,
                                          coords[1], coords[2]))
    /\ UNCHANGED bot

CallBlueClickTiming(cursor_x, blue_regions, current_frame) ==
    /\ pc = "helper"
    /\ call' = Some([fn |-> "calculate_blue_click_timing",
                     cursor_x |-> cursor_x,
                     blue_regions |-> blue_regions,
                     current_frame |-> current_frame])
    /\ ret' = Some(calculate_blue_click_timing(cursor_x, blue_regions, current_frame))
    /\ UNCHANGED bot

\* frames_to_zero = self._calculate_blue_region_zero_frame(blue_regions);
\* blue_region_zero_time = frames_to_zero / 60.0 if ... else None
CallBlueRegionZeroTime(blue_regions) ==
    /\ pc = "helper"
    /\ call' = Some([fn |-> "blue_region_zero_time", blue_regions |-> blue_regions])
    /\ ret' = Some(BlueRegionZeroTime(blue_regions))
    /\ UNCHANGED bot

CallAnalyze(cursor_result, blue_result, yellow_result) ==
    /\ pc = "helper"
    /\ call' = Some([fn |-> "analyze_progress_bar",
                     cursor_result |-> cursor_result,
                     blue_result |-> blue_result,
                     yellow_result |-> yellow_result])
    /\ ret' = Some(analyze_progress_bar(cursor_result, blue_result, yellow_result))
    /\ UNCHANGED bot

\* the observations of the decisions taken on their own
FnDecideCursors == { 500, 600, 700 }
FnDecideYellowLists ==
    { << >>,
      << << 520, 540 >> >>,
      << << 520, 800 >> >>,
      << << 780, 800 >>, << 820, 840 >> >> }
FnDecideBlueLists ==
    { << >>,
      << << 500, 560 >> >>,
      << << 560, 700 >> >>,
      << << 600, 601 >> >> }

\* a variant in which a bot constructed with only_yellow set never takes
\* the bonus target
CallDecide_honours_only_yellow(only_yellow, cursor_x, blue_regions, yellow_regions, current_frame) ==
    /\ pc = "helper"
    /\ Len(blue_regions) > 0 \/ Len(yellow_regions) > 0
    /\ LET info == [cursor_x |-> Some(cursor_x),
                    blue_regions |-> blue_regions,
                    yellow_regions |-> yellow_regions,
                    valid |-> TRUE]
           d == Decide(info, current_frame, progress_bar_left, progress_bar_right)
       IN /\ call' = Some([fn |-> "decide",
                           only_yellow |-> only_yellow,
                           bar_info |-> info,
                           current_frame |-> current_frame])
          /\ ret' = Some([target_zone |-> IF only_yellow /\ d.target_zone = "blue"
                                          THEN "none" ELSE d.target_zone,
                          wait_time |-> IF only_yellow /\ d.target_zone = "blue"
                                        THEN None ELSE d.wait_time,
                          timing |-> TimingCalls(info, current_frame,
                                                 progress_bar_left, progress_bar_right)])
    /\ UNCHANGED bot

\* the decision of one tick (steps 2-3 of play_minigame) of a bot that was
\* constructed with the given only_yellow, on a valid observation;
\* self.only_yellow is assigned by __init__ and read nowhere
CallDecide(only_yellow, cursor_x, blue_regions, yellow_regions, current_frame) ==
    /\ pc = "helper"
    /\ Len(blue_regions) > 0 \/ Len(yellow_regions) > 0
    /\ LET info == [cursor_x |-> Some(cursor_x),
                    blue_regions |-> blue_regions,
                    yellow_regions |-> yellow_regions,
                    valid |-> TRUE]
           d == Decide(info, current_frame, progress_bar_left, progress_bar_right)
       IN /\ call' = Some([fn |-> "decide",
                           only_yellow |-> only_yellow,
                           bar_info |-> info,
                           current_frame |-> current_frame])
          /\ ret' = Some([target_zone |-> d.target_zone,
                          wait_time |-> d.wait_time,
                          timing |-> TimingCalls(info, current_frame,
                                                 progress_bar_left, progress_bar_right)])
    /\ UNCHANGED bot

FnNext ==
    \/ \E f \in 0..MaxFrame : CallDirection(f)
    \/ \E c \in FnCursors, y \in FnYellowLists, f \in FnFrames, b \in FnCoords :
          CallClickTiming(c, y, f, b)
    \/ \E c \in FnCursors, b \in FnBlueLists, f \in FnFrames :
          CallBlueClickTiming(c, b, f)
    \/ \E b \in FnBlueLists : CallBlueRegionZeroTime(b)
    \/ \E c \in FnCursorResults, b \in FnZoneResults, y \in FnZoneResults :
          CallAnalyze(c, b, y)
    \/ \E o \in BOOLEAN, c \in FnDecideCursors, b \in FnDecideBlueLists,
          y \in FnDecideYellowLists, f \in FnFrames :
          CallDecide(o, c, b, y, f)

FnSpec == FnInit /\ [][FnNext]_vars

\* the helper whose call has just returned
Called(fn) == (~IsNone(call)) /\ Val(call).fn = fn

(***************************************************************************)
(* Properties                                                              *)
(***************************************************************************)
\* a step of the bot thread: every one of them moves the control (the one
\* other step is the tasker being told to stop)
BotStep == pc' # pc

\* a step of play_minigame at its loop test
TickStep == pc = "tick_top" /\ BotStep

\* the cast taps issued so far in the round, counted from the log
RECURSIVE CountOf(_, _)
CountOf(seq, x) ==
    IF Len(seq) = 0 THEN 0
    ELSE (IF seq[1] = x THEN 1 ELSE 0) + CountOf(Tail(seq), x)

CastTaps == CountOf(log, "cast_rod")

\* the tick has extracted an observation and it is valid
DecisionMade == tick.outcome \in { "accepted", "idle", "retry" }

\* C1: a tick that finds current_time - start_time above the 17 s budget
\* ends the round in that tick, without running the extractor or tapping:
\* play_minigame returns False when no tap was issued in the round and True
\* when at least one was.
C1_TimeoutEndsRound ==
    [][ (pc = "capture" /\ BotStep /\ tick.current > total_time * TicksPerSecond)
        => /\ pc' = "round_done"
           /\ round_result' = Some(CastTaps > 0)
           /\ tick'.extractions = 0
           /\ tick'.taps = 0
           /\ log' = log ]_vars

C1_Witness ==
    /\ pc = "round_done"
    /\ tick.current > total_time * TicksPerSecond
    /\ CastTaps > 0
    /\ round_result = Some(TRUE)

\* the observation of the tick has no cursor, or neither a bonus nor a
\* critical zone
InvalidObservation(info) ==
    IsNone(info.cursor_x) \/ (Len(info.blue_regions) = 0 /\ Len(info.yellow_regions) = 0)

\* C2: a tick whose timeout check has not fired and whose observation is
\* invalid ends the round at once with play_minigame returning True, whatever
\* the click count; main_loop then adds 1 to success_count and to
\* fish_since_last_sell.
C2_InvalidObservationIsSuccess ==
    [][ /\ (pc = "reco_yellow" /\ BotStep
              /\ InvalidObservation(Val(bar_info')))
           => (pc' = "round_done" /\ round_result' = Some(TRUE)
                 /\ click_count' = click_count /\ log' = log)
        /\ (pc = "round_done" /\ BotStep /\ tick.extractions = 1
              /\ InvalidObservation(Val(bar_info)))
           => (success_count' = success_count + 1
                 /\ fish_since_last_sell' = fish_since_last_sell + 1) ]_vars

C2_Witness ==
    /\ pc = "settle"
    /\ tick.extractions = 1
    /\ ~tick.frame_missing
    /\ InvalidObservation(Val(bar_info))
    /\ tick.clicks_at_top = 0
    /\ CastTaps = 0
    /\ success_count = 1
    /\ fish_since_last_sell = 1

\* C3: every round ends: once play_minigame is at its loop test, it
\* eventually returns (as success, timeout or aborted) or is left by an
\* exception, whatever the observations are and whether or not the stop
\* signal is ever set.
C3_RoundTerminates ==
    (pc = "tick_top") ~> (pc \in { "round_done", "crashed" })

\* C4: a tick whose capture returned no frame (and whose timeout check did
\* not fire) is retried: the extractor is not run, nothing is tapped, the
\* round goes on to the loop test, click count and round clock are as before.
C4_MissingFrameRetried ==
    [][ (pc = "capture" /\ BotStep /\ tick'.frame_missing
           /\ tick.current <= total_time * TicksPerSecond)
        => /\ tick'.extractions = 0
           /\ pc' \in { "tick_end", "tick_top" }
           /\ log' = log
           /\ click_count' = click_count
           /\ ~tick'.restarted ]_vars

\* C5: a tick that begins with the stop signal set (running false or the
\* tasker stopping) makes play_minigame return False, whatever the click
\* count, with no capture and no tap; and the ticks that end without a
\* target (retry, idle wait) or with a tap all lead back to the loop test,
\* where the signal is read.
C5_StopCheckedAtTickTop ==
    [][ /\ (pc = "tick_top" /\ (~running \/ stopping))
           => /\ pc' = "round_done"
              /\ round_result' = Some(FALSE)
              /\ tick'.captures = 0
              /\ tick'.taps = 0
              /\ log' = log
        /\ (pc = "reco_yellow" /\ BotStep /\ pc' # "round_done"
              /\ target_zone' = "none")
           => pc' \in { "idle_sleep", "tick_end" }
        /\ (pc = "idle_sleep" /\ BotStep) => pc' = "tick_end"
        /\ (pc = "tap" /\ BotStep) => pc' = "reset_pause"
        /\ (pc = "reset_pause" /\ BotStep) => pc' = "tick_end"
        /\ (pc = "tick_end" /\ BotStep) => pc' = "tick_top" ]_vars

C5_Witness ==
    /\ pc = "round_done"
    /\ stopping
    /\ round_result = Some(FALSE)
    /\ tick.captures = 0
    /\ tick.taps = 0
    /\ tick.clicks_at_top > 0
    /\ CastTaps > 0

\* C6: in a tick whose critical zone is eligible and whose time w to reach
\* it is defined, the target is the critical zone exactly when there is no
\* bonus zone or w + 0.27 s is strictly below the vanish time of the bonus
\* union; an accepted critical target is taken even when the bonus target
\* would pass the same test.
C6_CriticalFirst ==
    DecisionMade =>
      LET info == Val(bar_info)
          w == calculate_click_timing(Val(info.cursor_x), info.yellow_regions, frame,
                                      progress_bar_left, progress_bar_right)
          vanish == BlueRegionZeroTime(info.blue_regions)
      IN (should_click_yellow(Val(info.cursor_x), info.yellow_regions) /\ ~IsNone(w))
         => /\ (target_zone = "yellow")
                 <=> (Len(info.blue_regions) = 0
                        \/ Val(w) + (27 * TicksPerSecond) \div 100 < Val(vanish))
            /\ target_zone = "yellow" => wait_time = w

C6_Witness ==
    /\ DecisionMade
    /\ target_zone = "yellow"
    /\ Len(Val(bar_info).blue_regions) > 0
    /\ BlueAccepted(Val(bar_info), frame)

\* the cases C7 speaks of: no bonus zone, one critical zone (s, e), the
\* cursor moving right, at or before s, everything inside the field
C7_Case(info, f) ==
    /\ Len(info.blue_regions) = 0
    /\ Len(info.yellow_regions) = 1
    /\ get_cursor_direction_from_frame(f) = 1
    /\ Val(info.cursor_x) <= info.yellow_regions[1][1]
    /\ progress_bar_left <= Val(info.cursor_x)
    /\ info.yellow_regions[1][2] <= progress_bar_right

\* C7 as claimed: in these cases the target is the critical zone and the
\* wait is (s - cursor_x) / speed / 60.
C7_Original ==
    (DecisionMade /\ C7_Case(Val(bar_info), frame))
    => /\ target_zone = "yellow"
       /\ wait_time = Some(TravelTicks(2 * (Val(bar_info).yellow_regions[1][1]
                                              - Val(Val(bar_info).cursor_x))))

\* the observation of the scenario of C7 with the critical zone (s, e)
C7_Scenario(s, e) ==
    [cursor_x |-> Some(500), blue_regions |-> << >>,
     yellow_regions |-> << << s, e >> >>, valid |-> TRUE]

\* C7 amended: in these cases, when moreover the far edge e is more than the
\* look-ahead margin 4.2 * 0.27 * 60 = 68.04 px ahead of the cursor, the
\* target is the critical zone and the wait is (s - cursor_x) / speed / 60;
\* when it is not, the tick has no target.  In the field (300, 900), cursor
\* 500 and zone (520, 540) give no target, cursor 500 and zone (520, 570)
\* give the critical target with a wait of 20 / 4.2 / 60 s.
C7_CriticalAheadOfMargin ==
    /\ (DecisionMade /\ C7_Case(Val(bar_info), frame))
       => LET info == Val(bar_info)
              cx == Val(info.cursor_x)
              s == info.yellow_regions[1][1]
              e == info.yellow_regions[1][2]
          IN IF 100 * cx + 6804 < 100 * e
             THEN /\ target_zone = "yellow"
                  /\ wait_time = Some(TravelTicks(2 * (s - cx)))
             ELSE /\ target_zone = "none"
                  /\ wait_time = None
    /\ Decide(C7_Scenario(520, 540), 0, 300, 900).target_zone = "none"
    /\ Decide(C7_Scenario(520, 570), 0, 300, 900)
         = [target_zone |-> "yellow", wait_time |-> Some(TravelTicks(2 * 20))]

C7_Witness ==
    /\ DecisionMade
    /\ C7_Case(Val(bar_info), frame)
    /\ target_zone = "yellow"
    /\ Val(wait_time) > 0

\* C8: when the cursor is beyond the far edge of the last critical zone by
\* more than the look-ahead margin, the critical zone is not the target;
\* with no bonus zone either the tick has no target, taps nothing, sleeps
\* nowhere, leaves click count and round clock alone and goes back to the
\* loop test.
C8_PassedCriticalZone ==
    DecisionMade =>
      LET info == Val(bar_info)
          last_end == info.yellow_regions[Len(info.yellow_regions)][2]
      IN (Len(info.yellow_regions) > 0
            /\ 100 * Val(info.cursor_x) > 100 * last_end + 6804)
         => /\ target_zone # "yellow"
            /\ Len(info.blue_regions) = 0
               => /\ target_zone = "none"
                  /\ pc = "tick_end"
                  /\ tick.taps = 0
                  /\ tick.sleeps = << >>
                  /\ click_count = tick.clicks_at_top
                  /\ CastTaps = tick.clicks_at_top
                  /\ ~tick.restarted
                  /\ clock >= tick.current

C8_Witness ==
    /\ DecisionMade
    /\ Len(Val(bar_info).yellow_regions) > 0
    /\ Len(Val(bar_info).blue_regions) = 0
    /\ Val(Val(bar_info).cursor_x) > Val(bar_info).yellow_regions[1][2] + 69
    /\ pc = "tick_end"
    /\ target_zone = "none"
    /\ clock > 0

\* the Motion Model's time_to_reach, in ticks, for doubled positions: the
\* direct distance when the target lies in the direction of travel, else
\* the distance over the boundary ahead
C9_time_to_reach(cursor2, target2, direction, left, right) ==
    LET distance2 ==
          IF (direction > 0 /\ target2 >= cursor2) \/ (direction < 0 /\ target2 <= cursor2)
          THEN Abs(target2 - cursor2)
          ELSE IF direction > 0
          THEN (2 * right - cursor2) + (2 * right - target2)
          ELSE (cursor2 - 2 * left) + (target2 - 2 * left)
    IN TravelTicks(distance2)

\* C9: when the critical target is absent or rejected and there are bonus
\* zones, the wait computed for the bonus target is time_to_reach to the
\* centre of the bonus union: direct when the centre lies ahead, over one
\* bounce when it lies behind the direction of travel.
C9_BlueWaitIsTimeToReach ==
    DecisionMade =>
      LET info == Val(bar_info)
          w == calculate_blue_click_timing(Val(info.cursor_x), info.blue_regions, frame)
      IN (target_zone # "yellow" /\ Len(info.blue_regions) > 0 /\ ~IsNone(w))
         => Val(w) = C9_time_to_reach(2 * Val(info.cursor_x),
                                      MinStart(info.blue_regions) + MaxEnd(info.blue_regions),
                                      get_cursor_direction_from_frame(frame),
                                      progress_bar_left, progress_bar_right)

\* a tick of the round is under way
InTick == pc \in { "tick_top", "capture", "analyze", "reco_blue", "reco_yellow",
                   "idle_sleep", "wait_sleep",
                   "tap", "reset_pause", "tick_end" }

\* the round is under way or has just returned
InRound == InTick \/ pc = "round_done"

\* C10: a tick that accepts a target taps the cast point exactly once:
\* after one sleep of wait_time - analysis time - 0.045 s when that is
\* positive, without a sleep otherwise; then click_count is one more than at
\* the top of the tick, 0.6 s are slept and the round clock is restarted.
\* The click count is the number of cast taps of the round.
C10_OneTapPerAcceptedTick ==
    /\ InRound => click_count = CastTaps
    /\ (DecisionMade /\ target_zone # "none") =>
         LET adjusted == Val(wait_time) - elapsed - (45 * TicksPerSecond) \div 1000
             before == IF adjusted > 0 THEN << adjusted >> ELSE << >>
             pause == (6 * TicksPerSecond) \div 10
         IN CASE pc = "wait_sleep" ->
                   /\ adjusted > 0
                   /\ tick.sleeps = << >>
                   /\ tick.taps = 0
                   /\ click_count = tick.clicks_at_top
              [] pc = "tap" ->
                   /\ tick.sleeps = before
                   /\ tick.taps = 0
                   /\ click_count = tick.clicks_at_top
              [] pc = "reset_pause" ->
                   /\ tick.sleeps = before
                   /\ tick.taps = 1
                   /\ log[Len(log)] = "cast_rod"
                   /\ click_count = SatClicks(tick.clicks_at_top + 1)
                   /\ ~tick.restarted
              [] pc = "tick_end" ->
                   /\ tick.sleeps = before \o << pause >>
                   /\ tick.taps = 1
                   /\ log[Len(log)] = "cast_rod"
                   /\ click_count = SatClicks(tick.clicks_at_top + 1)
                   /\ tick.restarted
                   /\ clock = 0
              [] OTHER -> FALSE

C10_Witness ==
    /\ DecisionMade
    /\ target_zone # "none"
    /\ pc = "tick_end"
    /\ Len(tick.sleeps) = 2
    /\ click_count = 2

\* C11: for every frame count f >= 0 the cursor direction is +1 when
\* f mod 176 < 88 and -1 otherwise: it is +1 on [0,88), -1 on [88,176), and
\* the direction at f + 176 is the direction at f.
C11_DirectionPeriodic ==
    Called("get_cursor_direction_from_frame") =>
        LET f == Val(call).frame_count
            d == Val(ret)
        IN /\ d \in { 1, -1 }
           /\ (d = 1) <=> (f % 176 < 88)
           /\ (0 <= f /\ f < 88) => d = 1
           /\ (88 <= f /\ f < 176) => d = -1
           /\ get_cursor_direction_from_frame(f + 176) = d

C11_Witness ==
    /\ Called("get_cursor_direction_from_frame")
    /\ Val(call).frame_count = 88 + 176
    /\ Val(ret) = -1

\* the direction of travel, the target edge and the distances of a call of
\* _calculate_click_timing, as the design describes them
ReachDirection(c) == IF c.current_frame % 176 < 88 THEN 1 ELSE -1
ReachTarget(c) ==
    IF ReachDirection(c) = 1 THEN c.yellow_regions[1][1] ELSE c.yellow_regions[1][2]
\* the target lies behind the cursor's direction of travel
ReachBehind(c) ==
    \/ ReachDirection(c) = 1 /\ ReachTarget(c) < c.cursor_x
    \/ ReachDirection(c) = -1 /\ ReachTarget(c) > c.cursor_x
\* to the boundary in the direction of travel, and from it back to the target
ReachBounceDistance(c) ==
    IF ReachDirection(c) = 1
    THEN (c.bar_right - c.cursor_x) + (c.bar_right - ReachTarget(c))
    ELSE (c.cursor_x - c.bar_left) + (ReachTarget(c) - c.bar_left)
ReachDirectDistance(c) ==
    IF ReachTarget(c) < c.cursor_x THEN c.cursor_x - ReachTarget(c)
    ELSE ReachTarget(c) - c.cursor_x
\* t ticks are the time for px pixels at 4.2 px/frame and 60 frames/s
IsTimeFor(t, px) == t * 42 * 60 = px * 10 * TicksPerSecond
\* the time for px pixels is above 5 s
AboveCeiling(px) == px * 10 > 5 * 42 * 60
\* the bounce example of the design: cursor 100, target 50, rightward,
\* bounds (0, 800)
BounceExample(c) ==
    /\ c.cursor_x = 100
    /\ ReachTarget(c) = 50
    /\ ReachDirection(c) = 1
    /\ c.bar_left = 0
    /\ c.bar_right = 800

\* C12 as stated: when the target lies behind the direction of travel the
\* result is the time for exactly one bounce, (boundary - cursor) +
\* (boundary - target) pixels; for cursor 100, target 50, direction +1 and
\* bounds (0,800) it is the time for 1350 px, above the time for 50 px.
C12_Original ==
    (Called("calculate_click_timing") /\ ReachBehind(Val(call))) =>
        LET c == Val(call)
            r == Val(ret)
        IN /\ ~IsNone(r)
           /\ IsTimeFor(Val(r), ReachBounceDistance(c))
           /\ BounceExample(c) => /\ IsTimeFor(Val(r), 1350)
                                   /\ Val(r) > TravelTicks(2 * 50)

\* C12, amended: when the target lies behind the direction of travel the
\* result is the time for exactly one bounce, (boundary - cursor) +
\* (boundary - target) pixels, unless that time is above 5 s, and then it
\* is None; for cursor 100, target 50, direction +1 and bounds (0,800) the
\* bounce is (800 - 100) + (800 - 50) = 1450 px, 5.754 s at 4.2 px/frame,
\* and the result is None.
C12_BounceWithinCeiling ==
    (Called("calculate_click_timing") /\ ReachBehind(Val(call))) =>
        LET c == Val(call)
            r == Val(ret)
        IN /\ IF AboveCeiling(ReachBounceDistance(c))
              THEN IsNone(r)
              ELSE (~IsNone(r)) /\ IsTimeFor(Val(r), ReachBounceDistance(c))
           /\ BounceExample(c) => /\ ReachBounceDistance(c) = 1450
                                   /\ IsNone(r)

C12_Witness ==
    /\ Called("calculate_click_timing")
    /\ ReachBehind(Val(call))
    /\ Val(call).cursor_x = 700
    /\ ReachTarget(Val(call)) = 520
    /\ Val(call).bar_right = 863
    /\ ReachBounceDistance(Val(call)) = 506
    /\ Val(ret) = Some(50 * 506)
    /\ Val(Val(ret)) > TravelTicks(2 * ReachDirectDistance(Val(call)))

\* a call of _calculate_click_timing that needed no bounce and returned a time
DirectReach(c, r) ==
    /\ ~IsNone(c)
    /\ Val(c).fn = "calculate_click_timing"
    /\ ~ReachBehind(Val(c))
    /\ ~IsNone(Val(r))

\* C13: when no bounce is required, the time to reach grows with
\* |target_x - cursor_x|: of two calls with the same direction whose results
\* are both defined, the one with the larger distance never has the smaller
\* wait, and a strictly larger distance has a strictly larger wait.
C13_MonotoneWithoutBounce ==
    [][ (/\ DirectReach(call, ret)
         /\ DirectReach(call', ret')
         /\ ReachDirection(Val(call)) = ReachDirection(Val(call')))
        => LET d1 == ReachDirectDistance(Val(call))
               d2 == ReachDirectDistance(Val(call'))
               t1 == Val(Val(ret))
               t2 == Val(Val(ret'))
           IN /\ (d2 >= d1) => (t2 >= t1)
              /\ (d2 > d1) => (t2 > t1) ]_vars

C13_Witness ==
    /\ DirectReach(call, ret)
    /\ ReachDirection(Val(call)) = 1
    /\ Val(call).cursor_x = 101
    /\ ReachDirectDistance(Val(call)) = 1259
    /\ Val(Val(ret)) > TravelTicks(2 * 420)

\* the call of _calculate_click_timing that the current tick made
TickReach ==
    [cursor_x |-> Val(Val(bar_info).cursor_x),
     yellow_regions |-> Val(bar_info).yellow_regions,
     current_frame |-> frame,
     bar_left |-> 479,
     bar_right |-> 863]
\* the pixels the cursor travels to the critical target of that call
TickReachDistance ==
    IF ReachBehind(TickReach) THEN ReachBounceDistance(TickReach)
    ELSE ReachDirectDistance(TickReach)

\* the covering span of a non-empty list of zones
SpanLo(regions) ==
    CHOOSE x \in { regions[i][1] : i \in 1..Len(regions) } :
        \A i \in 1..Len(regions) : x <= regions[i][1]
SpanHi(regions) ==
    CHOOSE x \in { regions[i][2] : i \in 1..Len(regions) } :
        \A i \in 1..Len(regions) : x >= regions[i][2]
\* twice the pixels from the cursor to the centre of the bonus union
CentreDistance2(cursor_x, regions) ==
    LET m == SpanLo(regions) + SpanHi(regions) - 2 * cursor_x
    IN IF m < 0 THEN -m ELSE m
\* the union, shrunk by 0.83 px per frame at each end while the cursor
\* travels to its centre, is narrower than 5 px on arrival
NarrowOnArrival(cursor_x, regions) ==
    420 * (SpanHi(regions) - SpanLo(regions)) - 83 * CentreDistance2(cursor_x, regions)
      < 420 * 5

\* what one recorded call of a timing helper must have returned; for the
\* bonus target, narrow says whether a degenerate width counts as well
CeilingRule(k, narrow) ==
    IF k.fn = "calculate_click_timing"
    THEN /\ IsNone(k.ret) <=> AboveCeiling(TickReachDistance)
         /\ (~IsNone(k.ret)) => IsTimeFor(Val(k.ret), TickReachDistance)
    ELSE LET c == Val(Val(bar_info).cursor_x)
             b == Val(bar_info).blue_regions
             px2 == CentreDistance2(c, b)
         IN /\ IsNone(k.ret) <=>
                  (px2 * 10 > 2 * 5 * 42 * 60 \/ (narrow /\ NarrowOnArrival(c, b)))
            /\ (~IsNone(k.ret)) => IsTimeFor(2 * Val(k.ret), px2)

\* a helper that returned None has only had its target rejected: the round
\* has neither returned nor raised
OnlyRejected(k) ==
    IsNone(k.ret) =>
        /\ pc \in { "idle_sleep", "wait_sleep", "tap", "reset_pause", "tick_end" }
        /\ IsNone(round_result)
        /\ target_zone # (IF k.fn = "calculate_click_timing" THEN "yellow" ELSE "blue")

\* C14 as stated: a timing helper returns None exactly when the computed
\* travel time is strictly above 5 s, for the critical and the bonus target
\* alike (exactly 5 s is returned), and a None only rejects that target in
\* the current tick.
C14_Original ==
    \A i \in 1..Len(tick.timing) :
        CeilingRule(tick.timing[i], FALSE) /\ OnlyRejected(tick.timing[i])

\* C14, amended: _calculate_click_timing returns None exactly when the
\* computed travel time is strictly above 5 s; _calculate_blue_click_timing
\* returns None exactly when that time is strictly above 5 s or the bonus
\* union is predicted to be narrower than 5 px on arrival; a time of exactly
\* 5 s is returned as a value; and a None only rejects that target in the
\* current tick: the round neither ends nor raises.
C14_CeilingRejectsOnly ==
    \A i \in 1..Len(tick.timing) :
        CeilingRule(tick.timing[i], TRUE) /\ OnlyRejected(tick.timing[i])

C14_Witness ==
    /\ pc = "tick_end"
    /\ Len(tick.timing) = 1
    /\ tick.timing[1].fn = "calculate_click_timing"
    /\ IsNone(tick.timing[1].ret)
    /\ TickReachDistance = 1300
    /\ tick.outcome = "retry"
    /\ target_zone = "none"

\* the width of the covering span of the bonus zones of a call
SpanWidth(c) == SpanHi(c.blue_regions) - SpanLo(c.blue_regions)

\* C15 as stated: the time to vanish is None iff there is no bonus zone;
\* otherwise it is (half the width of the covering span) / 0.83 / 60 s.
C15_Original ==
    Called("blue_region_zero_time") =>
        LET c == Val(call)
            r == Val(ret)
        IN /\ IsNone(r) <=> (Len(c.blue_regions) = 0)
           /\ (~IsNone(r)) => Val(r) * 2 * 83 * 60 = SpanWidth(c) * 100 * TicksPerSecond

\* C15, amended: the time to vanish is None iff there is no bonus zone;
\* otherwise it is a whole number of frames F, divided by 60, where F is
\* (half the width of the covering span [min(start), max(end)]) / 0.83
\* rounded down, whatever the number and order of the bonus intervals.
C15_VanishInWholeFrames ==
    Called("blue_region_zero_time") =>
        LET c == Val(call)
            r == Val(ret)
        IN /\ IsNone(r) <=> (Len(c.blue_regions) = 0)
           /\ (~IsNone(r)) =>
                 \E F \in 0..SpanWidth(c) :
                     /\ Val(r) * 60 = F * TicksPerSecond
                     /\ F * 2 * 83 <= SpanWidth(c) * 100
                     /\ SpanWidth(c) * 100 < (F + 1) * 2 * 83

C15_Witness ==
    /\ Called("blue_region_zero_time")
    /\ Val(call).blue_regions = << << 540, 560 >>, << 500, 520 >> >>
    /\ SpanWidth(Val(call)) = 60
    /\ Val(ret) = Some(36 * 210)

\* the vanish example of the design: one bonus zone, start 400, end 420
VanishExample ==
    /\ Called("blue_region_zero_time")
    /\ Val(call).blue_regions = << << 400, 420 >> >>

\* C16 as stated: for one bonus zone (400, 420) the time to vanish is
\* between 8 and 10 frames, at 60 frames per second.
C16_Original ==
    VanishExample =>
        /\ ~IsNone(Val(ret))
        /\ 8 * TicksPerSecond <= Val(Val(ret)) * 60
        /\ Val(Val(ret)) * 60 <= 10 * TicksPerSecond

\* C16, amended: for one bonus zone (400, 420) the time to vanish is 12
\* frames at 60 frames per second, 0.2 s: the 10 px from an outer edge to
\* the centre at 0.83 px/frame, in whole frames.
C16_VanishExampleTwelveFrames ==
    VanishExample =>
        /\ ~IsNone(Val(ret))
        /\ Val(Val(ret)) * 60 = 12 * TicksPerSecond
        /\ Val(Val(ret)) * 10 = 2 * TicksPerSecond

C16_Witness ==
    /\ VanishExample
    /\ Val(ret) = Some(2520)

\* C17: the decision of a tick (target and wait) is the value of the pure
\* function Decide at the observation, the frame index and the configured
\* field, whatever the click count, the session counters and the ticks
\* before are; and computing it changes no state of the bot: the counters,
\* the click count, the flags and the log stay as they are, nothing is
\* tapped or slept and the round clock is not restarted in that step.
C17_DecisionPureFunction ==
    [][ (pc = "reco_yellow" /\ BotStep /\ pc' # "round_done") =>
          LET d == Decide(Val(bar_info'), frame, progress_bar_left, progress_bar_right)
          IN /\ target_zone' = d.target_zone
             /\ wait_time' = d.wait_time
             /\ UNCHANGED << counters, click_count, running, stopping, session,
                             frame, round_result, run_result, log >>
             /\ tick'.taps = 0
             /\ tick'.sleeps = << >>
             /\ ~tick'.restarted ]_vars

C17_Witness ==
    /\ DecisionMade
    /\ pc \in { "wait_sleep", "tap" }
    /\ target_zone = "yellow"
    /\ tick.clicks_at_top = 2
    /\ fish_count = 2
    /\ success_count = 1
    /\ fish_since_last_sell = 1

\* C18: whatever the observation (cursor and zones inside or outside the
\* field bounds) and the frame count, the wait of an accepted target is not
\* negative before the latency compensation.
C18_WaitNonNegative ==
    (DecisionMade /\ target_zone # "none") =>
        /\ ~IsNone(wait_time)
        /\ Val(wait_time) >= 0

\* the intervals are those of the matches of one recognition result, each
\* (x, x + width), in the order of the matches
IntervalsOfMatches(regions, result) ==
    /\ Len(regions) = (IF result.hit THEN Len(result.boxes) ELSE 0)
    /\ \A i \in 1..Len(regions) :
          /\ regions[i][1] = result.boxes[i][1]
          /\ regions[i][2] = result.boxes[i][1] + result.boxes[i][3]
          /\ (result.boxes[i][3] >= 0) => (regions[i][1] <= regions[i][2])

\* C19: the observation is valid iff a cursor position is present (0
\* included) and at least one of the two zone lists is not empty; every
\* interval is (x, x + width) of one match, so start <= end whenever the
\* width of the match is not negative.
C19_ValidIffCursorAndZone ==
    Called("analyze_progress_bar") =>
        LET c == Val(call)
            o == Val(ret)
        IN /\ (~IsNone(o.cursor_x)) <=> c.cursor_result.hit
           /\ o.valid <=> /\ c.cursor_result.hit
                          /\ \/ Len(o.blue_regions) > 0
                             \/ Len(o.yellow_regions) > 0
           /\ IntervalsOfMatches(o.blue_regions, c.blue_result)
           /\ IntervalsOfMatches(o.yellow_regions, c.yellow_result)

C19_Witness ==
    /\ Called("analyze_progress_bar")
    /\ Val(ret).cursor_x = Some(0)
    /\ Len(Val(ret).blue_regions) = 0
    /\ Len(Val(ret).yellow_regions) = 1
    /\ Val(ret).valid

\* C20: the session counters are changed only by the Session Orchestrator:
\* no step of play_minigame changes fish_count, success_count,
\* fish_since_last_sell or total_sell_count; and every call of
\* FishingBot.run starts its session with all four of them at zero.
C20_CountersOwnedAndReset ==
    [][ (InTick => UNCHANGED counters)
        /\ (runs' # runs)
           => /\ fish_count' = 0
              /\ success_count' = 0
              /\ fish_since_last_sell' = 0
              /\ total_sell_count' = 0 ]_vars

\* C21: on a fresh bot the sell runs after every sell_interval successful
\* rounds: after the settle tap sell_all_fish is entered exactly when the
\* round succeeded and fish_since_last_sell has reached sell_interval, it
\* adds 1 to total_sell_count and resets fish_since_last_sell to 0, and
\* nothing else does; a failed round never sells; so between attempts
\* 0 <= fish_since_last_sell < sell_interval and
\* total_sell_count = floor(success_count / sell_interval).
C21_SellEveryInterval ==
    [][ /\ (pc' = "run_loop")
           => /\ 0 <= fish_since_last_sell'
              /\ fish_since_last_sell' < sell_interval'
              /\ total_sell_count' * sell_interval' <= success_count'
              /\ success_count' < (total_sell_count' + 1) * sell_interval'
        /\ (pc = "settle_pause" /\ BotStep)
           => /\ IF round_result = Some(TRUE) /\ fish_since_last_sell = sell_interval
                 THEN pc' = "sell_capture"
                 ELSE pc' = "run_loop"
              /\ CountOf(log', "sell") = 0
        /\ (pc \in { "sell_capture", "sell_reco" } /\ pc' = "sell_pause")
           => /\ total_sell_count' = total_sell_count + 1
              /\ fish_since_last_sell' = 0
              /\ CountOf(log', "sell") = 1
        /\ (total_sell_count' # total_sell_count \/ CountOf(log', "sell") > CountOf(log, "sell"))
           => /\ pc \in { "sell_capture", "sell_reco" }
              /\ pc' = "sell_pause"
              /\ round_result = Some(TRUE)
              /\ fish_since_last_sell = sell_interval ]_vars

C21_Witness ==
    /\ pc = "run_loop"
    /\ sell_interval = 2
    /\ success_count = 2
    /\ fish_since_last_sell = 0
    /\ total_sell_count = 1
    /\ CountOf(log, "sell") = 1

\* the positions of main_loop after a cast that reported a bite
InAttempt ==
    \/ InRound
    \/ pc \in { "after_cast", "settle", "settle_tap", "settle_pause",
                "sell_capture", "sell_reco", "sell_pause" }

\* the log of an attempt that has settled: the cast taps of its round, one
\* tap at the screen centre, and then at most one sell
SettledLog(l) ==
    /\ CountOf(l, "screen_center") = 1
    /\ CountOf(l, "sell") <= 1
    /\ \A i \in 1..Len(l) :
          /\ l[i] = "cast_rod" => \E j \in (i + 1)..Len(l) : l[j] = "screen_center"
          /\ l[i] = "sell" => i = Len(l) /\ i > 1 /\ l[i - 1] = "screen_center"

\* C22: an attempt whose cast reports a bite runs one round and then taps
\* the screen centre exactly once, whatever the round did, any sell coming
\* after that tap; an attempt whose cast fails runs no round and taps
\* nothing. An attempt with a bite is left only after the settle tap.
C22_BiteRoundThenSettle ==
    [][ /\ (pc = "cast" /\ BotStep)
           => /\ log' = << >>
              /\ pc' \in { "after_cast", "run_loop", "crashed" }
        /\ (pc = "after_cast" /\ BotStep) => pc' = "tick_top"
        /\ (pc = "round_done" /\ BotStep)
           => pc' = "settle" /\ CountOf(log, "screen_center") = 0
        /\ (InAttempt /\ ~InAttempt')
           => /\ pc \in { "settle_pause", "sell_pause" }
              /\ SettledLog(log') ]_vars

\* the same statement for the attempts whose round returns
C22_SettleWhenRoundReturns ==
    [][ /\ (pc = "cast" /\ BotStep)
           => /\ log' = << >>
              /\ pc' \in { "after_cast", "run_loop", "crashed" }
        /\ (pc = "after_cast" /\ BotStep) => pc' = "tick_top"
        /\ (pc = "round_done" /\ BotStep)
           => pc' = "settle" /\ CountOf(log, "screen_center") = 0
        /\ (InAttempt /\ ~InAttempt' /\ pc' # "crashed")
           => /\ pc \in { "settle_pause", "sell_pause" }
              /\ SettledLog(log') ]_vars

\* the tick asked calculate_click_timing for the critical target
CriticalConsidered ==
    \E i \in 1..Len(tick.timing) : tick.timing[i].fn = "calculate_click_timing"

\* the far edge of the last critical zone of the observation
LastCriticalEnd ==
    Val(bar_info).yellow_regions[Len(Val(bar_info).yellow_regions)][2]

\* C23 as stated: the critical target is considered in a tick if and only
\* if cursor_x + M < end of the last critical zone, with a margin M of
\* roughly 16 px.
C23_Original ==
    DecisionMade =>
      (CriticalConsidered
         <=> /\ Len(Val(bar_info).yellow_regions) > 0
             /\ Val(Val(bar_info).cursor_x) + 16 < LastCriticalEnd)

\* C23: the critical target is considered in a tick if and only if
\* cursor_x + M < end of the last critical zone of the list, where
\* M = 4.2 * 0.27 * 60 = 68.04 px.
C23_MarginIs68px ==
    DecisionMade =>
      (CriticalConsidered
         <=> /\ Len(Val(bar_info).yellow_regions) > 0
             /\ 100 * Val(Val(bar_info).cursor_x) + 6804 < 100 * LastCriticalEnd)

C23_Witness ==
    /\ DecisionMade
    /\ Len(Val(bar_info).yellow_regions) > 0
    /\ Val(Val(bar_info).cursor_x) + 16 < LastCriticalEnd
    /\ Val(Val(bar_info).cursor_x) + 68 >= LastCriticalEnd
    /\ ~CriticalConsidered

\* the whole frames until the covering span of the bonus zones has shrunk
\* to its centre at 0.83 px per frame and end
VanishFrames(regions) == ((SpanHi(regions) - SpanLo(regions)) * 100) \div (2 * 83)

\* C24: a tick that accepts no target taps nothing and leaves the click
\* count alone; when the bonus vanish time is known and positive it sleeps
\* exactly that long and restarts the round clock; otherwise (no bonus
\* zone, or a vanish time of 0) it goes to the next tick with no sleep and
\* the round clock not restarted.
C24_NoTargetIdleOrRetry ==
    (DecisionMade /\ target_zone = "none") =>
      LET b == Val(bar_info).blue_regions
      IN /\ tick.taps = 0
         /\ click_count = tick.clicks_at_top
         /\ CastTaps = tick.clicks_at_top
         /\ IF Len(b) > 0 /\ VanishFrames(b) > 0
            THEN \/ /\ pc = "idle_sleep"
                    /\ tick.sleeps = << >>
                    /\ ~tick.restarted
                 \/ /\ pc = "tick_end"
                    /\ tick.sleeps = << VanishFrames(b) * TicksPerFrame >>
                    /\ tick.restarted
                    /\ clock = 0
            ELSE /\ pc = "tick_end"
                 /\ tick.sleeps = << >>
                 /\ ~tick.restarted
                 /\ clock >= tick.current

C24_Witness ==
    /\ DecisionMade
    /\ target_zone = "none"
    /\ Len(Val(bar_info).blue_regions) > 0
    /\ tick.current > 0
    /\ tick.sleeps = << 24 * TicksPerFrame >>
    /\ tick.restarted
    /\ clock = 0

\* C25: once the tasker is stopping while a round is running, no new tick
\* is started (the loop test ends the round with False, with no capture and
\* no tap) and the only tap still issued is the one of the tick in progress:
\* its capture, analysis and waits run to the end, it taps at most once and
\* goes back to the loop test.
C25_AtMostOneTapAfterStop ==
    [][ (stopping /\ InTick) =>
          /\ tick.taps <= 1
          /\ CastTaps' > CastTaps => pc = "tap"
          /\ pc = "tick_top"
                => /\ pc' = "round_done"
                   /\ round_result' = Some(FALSE)
                   /\ tick'.captures = 0
                   /\ tick'.taps = 0
          /\ pc = "capture" => pc' \in { "analyze", "round_done" }
          /\ pc = "analyze" => pc' \in { "reco_blue", "crashed" }
          /\ pc = "reco_blue" => pc' = "reco_yellow"
          /\ pc = "reco_yellow"
                => pc' \in { "round_done", "idle_sleep", "wait_sleep", "tap", "tick_end" }
          /\ pc = "idle_sleep" => pc' = "tick_end"
          /\ pc = "wait_sleep"
                => /\ pc' = "tap"
                   /\ tick'.sleeps = Append(tick.sleeps, AdjustedWait(Val(wait_time), elapsed))
          /\ pc = "tap"
                => /\ pc' = "reset_pause"
                   /\ tick.taps = 0
                   /\ tick'.taps = 1
                   /\ CastTaps' = SatClicks(CastTaps + 1)
          /\ pc = "reset_pause" => pc' = "tick_end"
          /\ pc = "tick_end" => pc' = "tick_top" ]_vars

C25_Witness ==
    /\ stopping
    /\ pc = "tick_end"
    /\ tick.taps = 1
    /\ tick.sleeps = << AdjustedWait(Val(wait_time), elapsed), ResetPauseTicks >>
    /\ click_count = 2

\* C26: the width check of the bonus helper is implied by the vanish-time
\* margin test of the scheduler: when the helper's wait passes the test
\* (wait + 0.27 s < vanish time) the bonus union is at least 5 px wide on
\* arrival, and an observation whose union is narrower than 5 px on arrival
\* fails the margin test with the travel time to the centre of the union.
C26_MarginImpliesWidth ==
    (Called("calculate_blue_click_timing") /\ Len(Val(call).blue_regions) > 0) =>
        LET c == Val(call).cursor_x
            b == Val(call).blue_regions
            r == Val(ret)
            zero_time == BlueRegionZeroTime(b)
            travel == Some(TravelTicks(CentreDistance2(c, b)))
        IN /\ ((~IsNone(r)) /\ BeforeVanish(r, zero_time)) => ~NarrowOnArrival(c, b)
           /\ NarrowOnArrival(c, b) => IsNone(r) /\ ~BeforeVanish(travel, zero_time)

C26_Witness ==
    /\ Called("calculate_blue_click_timing")
    /\ Val(call).cursor_x = 700
    /\ Len(Val(call).blue_regions) > 0
    /\ SpanWidth(Val(call)) = 60
    /\ NarrowOnArrival(700, Val(call).blue_regions)
    /\ IsNone(Val(ret))
    /\ TravelTicks(CentreDistance2(700, Val(call).blue_regions)) < SanityCeilingTicks

\* the call has the default field bounds, and its cursor and its target lie
\* inside them
InsideDefaultField(c) ==
    /\ c.bar_left = 479
    /\ c.bar_right = 863
    /\ Len(c.yellow_regions) > 0
    /\ 479 <= c.cursor_x /\ c.cursor_x <= 863
    /\ 479 <= ReachTarget(c) /\ ReachTarget(c) <= 863

\* C27: with the default field bounds (479, 863), for every cursor and
\* every target inside the bounds and both directions, the time to reach is
\* defined: the distance, one bounce included, is at most 2 * 384 = 768 px,
\* below the 1260 px of the 5 s ceiling; so a call the ceiling rejects has
\* its cursor or its target outside the field.
C27_CeilingSparesDefaultField ==
    Called("calculate_click_timing") =>
        LET c == Val(call)
            r == Val(ret)
            px == IF ReachBehind(c) THEN ReachBounceDistance(c)
                  ELSE ReachDirectDistance(c)
        IN /\ InsideDefaultField(c)
              => /\ px <= 2 * (863 - 479)
                 /\ ~AboveCeiling(px)
                 /\ ~IsNone(r)
                 /\ IsTimeFor(Val(r), px)
           /\ (Len(c.yellow_regions) > 0 /\ IsNone(r)) => ~InsideDefaultField(c)

C27_Witness ==
    /\ Called("calculate_click_timing")
    /\ InsideDefaultField(Val(call))
    /\ ReachBehind(Val(call))
    /\ ReachBounceDistance(Val(call)) = 767
    /\ Val(ret) = Some(767 * 50)

\* the decision asked calculate_click_timing for the critical target
DecideConsidered(r) ==
    \E i \in 1..Len(Val(r).timing) : Val(r).timing[i].fn = "calculate_click_timing"

\* the cursor lies to the right of every critical zone of the observation
RightOfEveryCritical(info) ==
    /\ Len(info.yellow_regions) > 0
    /\ \A i \in 1..Len(info.yellow_regions) :
          Val(info.cursor_x) > info.yellow_regions[i][2]

\* C28: whether the critical target is considered depends on the
\* observation only, never on the direction of travel: two decisions on the
\* same observation at different frame indices agree on it, and a cursor
\* that moves left and lies to the right of every critical zone is never
\* considered for the critical target.
C28_EligibilityIgnoresDirection ==
    [][ Called("decide")' =>
          /\ (Called("decide") /\ Val(call).bar_info = Val(call').bar_info)
                => (DecideConsidered(ret) <=> DecideConsidered(ret'))
          /\ (get_cursor_direction_from_frame(Val(call').current_frame) = -1
                /\ RightOfEveryCritical(Val(call').bar_info))
                => (~DecideConsidered(ret') /\ Val(ret').target_zone # "yellow") ]_vars

C28_Witness ==
    /\ Called("decide")
    /\ Val(call).current_frame = 100
    /\ Val(Val(call).bar_info.cursor_x) = 700
    /\ Val(call).bar_info.yellow_regions = << << 520, 540 >> >>
    /\ ~DecideConsidered(ret)

\* the recorded call of a timing helper returned a wait that passes the
\* vanish-time margin test of the observation
Acceptable(r, info, fn) ==
    \E i \in 1..Len(Val(r).timing) :
        LET k == Val(r).timing[i]
        IN /\ k.fn = fn
           /\ ~IsNone(k.ret)
           /\ \/ Len(info.blue_regions) = 0
              \/ Val(k.ret) + 3402 < VanishFrames(info.blue_regions) * TicksPerFrame

\* C29: the decision does not depend on the only_yellow option: two bots
\* that differ only in only_yellow decide alike on the same observation and
\* frame, and a bot with only_yellow set that has no acceptable critical
\* target and an acceptable bonus target takes the bonus target.
C29_OnlyYellowIgnored ==
    [][ Called("decide")' =>
          /\ (/\ Called("decide")
              /\ Val(call).bar_info = Val(call').bar_info
              /\ Val(call).current_frame = Val(call').current_frame)
                => ret' = ret
          /\ (/\ Val(call').only_yellow
              /\ ~Acceptable(ret', Val(call').bar_info, "calculate_click_timing")
              /\ Acceptable(ret', Val(call').bar_info, "calculate_blue_click_timing"))
                => /\ Val(ret').target_zone = "blue"
                   /\ ~IsNone(Val(ret').wait_time) ]_vars

C29_Witness ==
    /\ Called("decide")
    /\ Val(call).only_yellow
    /\ Len(Val(call).bar_info.yellow_regions) > 0
    /\ ~Acceptable(ret, Val(call).bar_info, "calculate_click_timing")
    /\ Acceptable(ret, Val(call).bar_info, "calculate_blue_click_timing")
    /\ Val(ret).target_zone = "blue"

\* C30: in a session started with max_count >= 1 the attempts never exceed
\* max_count (fish_count <= max_count, failed casts included) and
\* success_count <= fish_count; once run has returned, its result is True
\* exactly when a round of the session ended as success, and running is
\* False.
C30_AttemptsBoundedRunResult ==
    /\ max_count >= 1
    /\ 0 <= success_count
    /\ success_count <= fish_count
    /\ fish_count <= max_count
    /\ IsNone(run_result) <=> pc # "returned"
    /\ pc = "returned"
          => /\ ~running
             /\ Val(run_result) <=> success_count > 0

C30_Witness ==
    /\ pc = "returned"
    /\ max_count = 2
    /\ fish_count = 2
    /\ success_count = 1
    /\ run_result = Some(TRUE)
    /\ ~running
====
